---- MODULE Spec2Model ----
(***************************************************************************)
(* SpikeMonitorCore of CARLsim3 (carlsim/spike_monitor/spike_monitor_core  *)
(* .cpp) as a state machine: the recording session, the per-neuron spike   *)
(* store, the lazily computed firing-rate caches and the spike-file header.*)
(*                                                                         *)
(* Conventions.                                                            *)
(*  - assert(c) with c false aborts the process: fault becomes the text   *)
(*    of c and no further operation runs.                                  *)
(*  - float / double values are exact rationals <<num, den>> in lowest     *)
(*    terms with den > 0; IEEE infinities and NaN are separate values.     *)
(*  - vectors indexed by neuron id are functions on 0 .. nNeurons_-1.      *)
(***************************************************************************)
EXTENDS Integers, Sequences, FiniteSets

\* ------------------------------------------------------------------ bounds
\* number of steps the simulation clock takes
MaxTicks == 2
\* most spikes the store and the collaborator's buffer hold together
MaxSpikes == 2
\* most words a sink receives: room for two headers
MaxSinkWords == 4

\* ------------------------------------------------------- program constants
\* number of neurons of the monitored group (snn_->getGroupNumNeurons)
nNeurons_ == 2
\* the spike monitor mode set by the constructor
mode_ == "AER"
\* FILE* values: NULL and the sinks a caller may hand in
NULL == 0
Sinks == {1, 2}
\* steps of the simulation clock, in ms
TickSteps == {500}

Neurons == 0 .. (nNeurons_ - 1)
\* neuron ids a caller may pass, valid or not
NeurIdInputs == -1 .. nNeurons_

VARIABLES
    \* SpikeMonitorCore fields
    recordSet_, persistentData_,
    startTime_, startTimeLast_, stopTime_, accumTime_, totalTime_,
    spkVector_,
    needToCalculateFiringRates_, needToSortFiringRates_,
    firingRates_, firingRatesSorted_,
    spikeFileId_, needToWriteFileHeader_,
    \* environment: simulation clock, what each sink has received
    simTimeSec, simTimeMs, sinkData,
    \* each sink the caller has opened: "unbound" until it is handed to the
    \* monitor, "bound" from then on while open, "closed" once fclose'd
    sinkState,
    \* "none" while the monitor lives and the process runs, else what ended
    \* it: the expression of the assert that failed, "segv", or "destroyed"
    \* once the destructor has run
    fault,
    \* history of the session, for stating the claims
    hist

timing == <<startTime_, startTimeLast_, stopTime_, accumTime_, totalTime_>>
caches == <<needToCalculateFiringRates_, needToSortFiringRates_,
            firingRates_, firingRatesSorted_>>
fileVars == <<spikeFileId_, needToWriteFileHeader_, sinkData, sinkState>>
clock == <<simTimeSec, simTimeMs>>
vars == <<recordSet_, persistentData_, timing, spkVector_, caches, fileVars,
          clock, fault, hist>>

\* --------------------------------------------------------------- rationals
Abs(x) == IF x < 0 THEN -x ELSE x

RECURSIVE GCD(_, _)
GCD(a, b) == IF b = 0 THEN a ELSE GCD(b, a % b)

\* n / d for d # 0, in lowest terms with a positive denominator
Rat(n, d) ==
    LET g == GCD(Abs(n), Abs(d))
        s == IF d < 0 THEN -1 ELSE 1
    IN  <<(s * n) \div g, Abs(d) \div g>>

Zero == <<0, 1>>
\* IEEE results of a division by zero
Inf == <<1, 0>>
NegInf == <<-1, 0>>
NaN == <<0, 0>>
\* the floating-point quotient n / d
Div(n, d) ==
    IF d # 0 THEN Rat(n, d)
    ELSE IF n = 0 THEN NaN ELSE IF n > 0 THEN Inf ELSE NegInf
RatLE(a, b) == a[1] * b[2] <= b[1] * a[2]
RatAdd(a, b) == Rat(a[1] * b[2] + b[1] * a[2], a[2] * b[2])
RatSub(a, b) == Rat(a[1] * b[2] - b[1] * a[2], a[2] * b[2])
RatMul(a, b) == Rat(a[1] * b[1], a[2] * b[2])

\* ------------------------------------------------------------ the object
\* the monitor's fields and the process's fault as one record, so that a
\* member function is an operator from the object to the object
Self ==
    [recordSet_ |-> recordSet_, persistentData_ |-> persistentData_,
     startTime_ |-> startTime_, startTimeLast_ |-> startTimeLast_,
     stopTime_ |-> stopTime_, accumTime_ |-> accumTime_,
     totalTime_ |-> totalTime_, spkVector_ |-> spkVector_,
     needToCalculateFiringRates_ |-> needToCalculateFiringRates_,
     needToSortFiringRates_ |-> needToSortFiringRates_,
     firingRates_ |-> firingRates_, firingRatesSorted_ |-> firingRatesSorted_,
     spikeFileId_ |-> spikeFileId_,
     needToWriteFileHeader_ |-> needToWriteFileHeader_,
     fault |-> fault]

Becomes(m) ==
    /\ recordSet_' = m.recordSet_
    /\ persistentData_' = m.persistentData_
    /\ startTime_' = m.startTime_
    /\ startTimeLast_' = m.startTimeLast_
    /\ stopTime_' = m.stopTime_
    /\ accumTime_' = m.accumTime_
    /\ totalTime_' = m.totalTime_
    /\ spkVector_' = m.spkVector_
    /\ needToCalculateFiringRates_' = m.needToCalculateFiringRates_
    /\ needToSortFiringRates_' = m.needToSortFiringRates_
    /\ firingRates_' = m.firingRates_
    /\ firingRatesSorted_' = m.firingRatesSorted_
    /\ spikeFileId_' = m.spikeFileId_
    /\ needToWriteFileHeader_' = m.needToWriteFileHeader_
    /\ fault' = m.fault

\* assert(expr) with expr false aborts the process
Fail(m, expr) == [m EXCEPT !.fault = expr]
NotRec == "!isRecording()"
IsAER == "getMode()==AER"
InRange == "neurId>=0 && neurId<nNeurons_"
Running(m) == m.fault = "none"

\* return values: what a call hands back, NoRet when it did not return
NoRet == [kind |-> "none", val |-> Zero]
Void == [kind |-> "void", val |-> Zero]
IntRet(n) == [kind |-> "int", val |-> n]
FloatRet(q) == [kind |-> "float", val |-> q]
SqrtRet(q) == [kind |-> "sqrt", val |-> q]
VecRet(v) == [kind |-> "vec", val |-> v]
Res(m, r) == [m |-> m, r |-> r]

\* inline accessors of spike_monitor_core.h
isRecording(m) == m.recordSet_
getMode(m) == mode_
getRecordingTotalTime(m) == m.totalTime_

\* std::vector<float>::assign(nNeurons_, 0)
AssignZeros == [i \in Neurons |-> Zero]
EmptyStore == [i \in Neurons |-> <<>>]

RECURSIVE SumLen(_, _)
SumLen(store, n) ==
    IF n = 0 THEN 0 ELSE Len(store[n - 1]) + SumLen(store, n - 1)
TotalSpikes(store) == SumLen(store, nNeurons_)

\* snn_->getSimTimeSec()*1000 + snn_->getSimTimeMs()
CurrentTime == simTimeSec * 1000 + simTimeMs

\* ------------------------------------------------------------- clear()
\* clear() without its assert
clearNoAssert(m) ==
    [m EXCEPT !.recordSet_ = FALSE,
              !.startTime_ = -1,
              !.startTimeLast_ = -1,
              !.stopTime_ = -1,
              !.accumTime_ = 0,
              !.totalTime_ = -1,
              !.spkVector_ = EmptyStore,
              !.needToCalculateFiringRates_ = TRUE,
              !.needToSortFiringRates_ = TRUE,
              !.firingRates_ = AssignZeros,
              !.firingRatesSorted_ = AssignZeros]

clear(m) ==
    IF isRecording(m) THEN Fail(m, NotRec)
    ELSE [m EXCEPT !.recordSet_ = FALSE,
                   !.startTime_ = -1,
                   !.startTimeLast_ = -1,
                   !.stopTime_ = -1,
                   !.accumTime_ = 0,
                   !.totalTime_ = -1,
                   !.spkVector_ = EmptyStore,
                   !.needToCalculateFiringRates_ = TRUE,
                   !.needToSortFiringRates_ = TRUE,
                   !.firingRates_ = AssignZeros,
                   !.firingRatesSorted_ = AssignZeros]

\* ------------------------------------------------------------ pushAER()
\* a push_back that lands in the first neuron's sequence
pushBackFirstNeuron(store, neurId, time) ==
    [store EXCEPT ![0] = Append(@, time)]

pushBack(store, neurId, time) == [store EXCEPT ![neurId] = Append(@, time)]

\* the asserts of pushAER ("none": both hold); the store is then indexed
\* without a range check
pushAERChecks(m) ==
    IF ~isRecording(m) THEN "isRecording()"
    ELSE IF getMode(m) # "AER" THEN IsAER ELSE "none"

\* spkVector_[neurId] with neurId outside the vector is undefined behaviour:
\* the build either crashes on the wild vector header (ub = "crash") or
\* writes outside the store and carries on (ub = "silent")
UBOutcomes == {"crash", "silent"}

pushAER(m, time, neurId, ub) ==
    IF pushAERChecks(m) # "none" THEN Fail(m, pushAERChecks(m))
    ELSE IF neurId \in Neurons
         THEN [m EXCEPT !.spkVector_ = pushBack(@, neurId, time)]
         ELSE IF ub = "crash" THEN [m EXCEPT !.fault = "segv"] ELSE m

\* CpuSNN::updateSpikeMonitor as the monitor sees it: the spikes the
\* collaborator holds for the group reach the store only while the monitor
\* records, and are dropped otherwise
RECURSIVE deliver(_, _)
deliver(m, spikes) ==
    IF spikes = <<>> THEN m
    ELSE deliver(pushAER(m, Head(spikes)[1], Head(spikes)[2], "crash"),
                 Tail(spikes))

updateSpikeMonitor(m, spikes) ==
    IF isRecording(m) /\ getMode(m) = "AER" THEN deliver(m, spikes) ELSE m

\* ------------------------------------------------------ startRecording()
\* a start time that every start overwrites
startStartTimeOverwritten(persistent, old, currentTime) == currentTime

startStartTime(persistent, old, currentTime) ==
    IF persistent THEN (IF old < 0 THEN currentTime ELSE old) ELSE currentTime

\* an accumulated time that is reset at every start
startAccumTimeReset(persistent, total) == 0

\* an accumulated time seeded from totalTime_ also while it is unset
startAccumTimeSeedsUnset(persistent, total) ==
    IF persistent THEN total ELSE 0

startAccumTime(persistent, total) ==
    IF persistent THEN (IF total > 0 THEN total ELSE 0) ELSE 0

\* a startRecording that never clears
startRecordingKeepsData(m, spikes, currentTime) ==
    IF isRecording(m) THEN Fail(m, NotRec)
    ELSE LET u == updateSpikeMonitor(m, spikes)
         IN  [u EXCEPT !.needToCalculateFiringRates_ = TRUE,
                       !.needToSortFiringRates_ = TRUE,
                       !.recordSet_ = TRUE,
                       !.startTime_ =
                           startStartTime(u.persistentData_, @, currentTime),
                       !.startTimeLast_ = currentTime,
                       !.accumTime_ =
                           startAccumTime(u.persistentData_, u.totalTime_)]

\* a startRecording that leaves the caches marked as they were
startRecordingKeepsCaches(m, spikes, currentTime) ==
    IF isRecording(m) THEN Fail(m, NotRec)
    ELSE LET c == IF ~m.persistentData_ THEN clear(m) ELSE m
             u == updateSpikeMonitor(c, spikes)
         IN  [u EXCEPT !.recordSet_ = TRUE,
                       !.startTime_ =
                           startStartTime(u.persistentData_, @, currentTime),
                       !.startTimeLast_ = currentTime,
                       !.accumTime_ =
                           startAccumTime(u.persistentData_, u.totalTime_)]

\* a startRecording that sets recordSet_ before the flush
startRecordingArmsFirst(m, spikes, currentTime) ==
    IF isRecording(m) THEN Fail(m, NotRec)
    ELSE LET c == IF ~m.persistentData_ THEN clear(m) ELSE m
             u == updateSpikeMonitor([c EXCEPT !.recordSet_ = TRUE], spikes)
         IN  [u EXCEPT !.needToCalculateFiringRates_ = TRUE,
                       !.needToSortFiringRates_ = TRUE,
                       !.startTime_ =
                           startStartTime(u.persistentData_, @, currentTime),
                       !.startTimeLast_ = currentTime,
                       !.accumTime_ =
                           startAccumTime(u.persistentData_, u.totalTime_)]

startRecording(m, spikes, currentTime) ==
    IF isRecording(m) THEN Fail(m, NotRec)
    ELSE LET c == IF ~m.persistentData_ THEN clear(m) ELSE m
             u == updateSpikeMonitor(c, spikes)
         IN  [u EXCEPT !.needToCalculateFiringRates_ = TRUE,
                       !.needToSortFiringRates_ = TRUE,
                       !.recordSet_ = TRUE,
                       !.startTime_ =
                           startStartTime(u.persistentData_, @, currentTime),
                       !.startTimeLast_ = currentTime,
                       !.accumTime_ =
                           startAccumTime(u.persistentData_, u.totalTime_)]

\* ------------------------------------------------------- stopRecording()
\* stopRecording without assert(isRecording())
stopChecksNoRecording(m) ==
    IF ~(m.startTime_ > -1 /\ m.startTimeLast_ > -1 /\ m.accumTime_ > -1)
    THEN "startTime_>-1 && startTimeLast_>-1 && accumTime_>-1"
    ELSE "none"

stopChecks(m) ==
    IF ~isRecording(m) THEN "isRecording()"
    ELSE IF ~(m.startTime_ > -1 /\ m.startTimeLast_ > -1 /\ m.accumTime_ > -1)
    THEN "startTime_>-1 && startTimeLast_>-1 && accumTime_>-1"
    ELSE "none"

\* a total time that counts the last probe alone
stopTotalTimeLastProbe(stop, startLast, accum) == stop - startLast

stopTotalTime(stop, startLast, accum) == stop - startLast + accum

stopRecording(m, spikes, currentTime) ==
    IF stopChecks(m) # "none" THEN Fail(m, stopChecks(m))
    ELSE LET u == updateSpikeMonitor(m, spikes)
             s == [u EXCEPT !.recordSet_ = FALSE,
                            !.stopTime_ = currentTime,
                            !.totalTime_ =
                                stopTotalTime(currentTime, u.startTimeLast_,
                                              u.accumTime_)]
         IN  IF s.totalTime_ >= 0 THEN s ELSE Fail(s, "totalTime_>=0")

\* ------------------------------------------------------------- statistics
neurIdInRange(neurId) == neurId >= 0 /\ neurId < nNeurons_

getNeuronNumSpikes(m, neurId) ==
    IF isRecording(m) THEN Res(Fail(m, NotRec), NoRet)
    ELSE IF ~neurIdInRange(neurId) THEN Res(Fail(m, InRange), NoRet)
    ELSE IF getMode(m) # "AER" THEN Res(Fail(m, IsAER), NoRet)
    ELSE Res(m, IntRet(Len(m.spkVector_[neurId])))

\* the loop of getPopNumSpikes over i = 0 .. n-1
RECURSIVE popNumSpikesLoop(_, _)
popNumSpikesLoop(m, n) ==
    IF n = 0 THEN 0
    ELSE popNumSpikesLoop(m, n - 1) + getNeuronNumSpikes(m, n - 1).r.val

getPopNumSpikes(m) ==
    IF isRecording(m) THEN Res(Fail(m, NotRec), NoRet)
    ELSE Res(m, IntRet(popNumSpikesLoop(m, nNeurons_)))

\* a guard written as the assignment totalTime_ = 0: it sets the field,
\* is false, and the division goes ahead
getPopMeanFiringRateAssigns(m) ==
    IF isRecording(m) THEN Res(Fail(m, NotRec), NoRet)
    ELSE LET z == [m EXCEPT !.totalTime_ = 0]
         IN  Res(z, FloatRet(Div(getPopNumSpikes(z).r.val * 1000,
                                 getRecordingTotalTime(z) * nNeurons_)))

getPopMeanFiringRate(m) ==
    IF isRecording(m) THEN Res(Fail(m, NotRec), NoRet)
    ELSE IF m.totalTime_ = 0 THEN Res(m, FloatRet(Zero))
    ELSE Res(m, FloatRet(Div(getPopNumSpikes(m).r.val * 1000,
                             getRecordingTotalTime(m) * nNeurons_)))

\* a rate whose quotient is taken in integers before the scaling
neuronRateIntegerQuotient(numSpikes, totalTime) ==
    Rat((numSpikes \div totalTime) * 1000, 1)

neuronRate(numSpikes, totalTime) == Div(numSpikes * 1000, totalTime)

\* a calculateFiringRates that leaves needToCalculateFiringRates_ set
calculateFiringRatesStaysDirty(m) ==
    IF ~m.needToCalculateFiringRates_ THEN m
    ELSE IF getMode(m) # "AER" THEN Fail(m, IsAER)
    ELSE LET z == [m EXCEPT !.firingRates_ = AssignZeros,
                            !.firingRatesSorted_ = AssignZeros]
         IN  IF z.totalTime_ = 0 THEN z
             ELSE IF ~(z.totalTime_ > 0) THEN Fail(z, "totalTime_>0")
             ELSE [z EXCEPT
                     !.firingRates_ =
                         [i \in Neurons |->
                             neuronRate(Len(z.spkVector_[i]), z.totalTime_)]]

calculateFiringRates(m) ==
    IF ~m.needToCalculateFiringRates_ THEN m
    ELSE IF getMode(m) # "AER" THEN Fail(m, IsAER)
    ELSE LET z == [m EXCEPT !.firingRates_ = AssignZeros,
                            !.firingRatesSorted_ = AssignZeros]
         IN  IF z.totalTime_ = 0 THEN z
             ELSE IF ~(z.totalTime_ > 0) THEN Fail(z, "totalTime_>0")
             ELSE [z EXCEPT
                     !.firingRates_ =
                         [i \in Neurons |->
                             neuronRate(Len(z.spkVector_[i]), z.totalTime_)],
                     !.needToCalculateFiringRates_ = FALSE]

\* std::sort, ascending: insertion of each element into the sorted prefix
RECURSIVE insertSorted(_, _)
insertSorted(q, s) ==
    IF s = <<>> THEN <<q>>
    ELSE IF RatLE(q, Head(s)) THEN <<q>> \o s
    ELSE <<Head(s)>> \o insertSorted(q, Tail(s))

RECURSIVE sortPrefix(_, _)
sortPrefix(v, n) ==
    IF n = 0 THEN <<>> ELSE insertSorted(v[n - 1], sortPrefix(v, n - 1))

\* a copy that is left unsorted
stdSortUnsorted(v) == v

stdSort(v) == LET s == sortPrefix(v, nNeurons_) IN [i \in Neurons |-> s[i + 1]]

sortFiringRates(m) ==
    IF ~m.needToSortFiringRates_ THEN m
    ELSE LET c == calculateFiringRates(m)
         IN  IF ~Running(c) THEN c
             ELSE [c EXCEPT !.firingRatesSorted_ = stdSort(c.firingRates_),
                            !.needToSortFiringRates_ = FALSE]

getAllFiringRates(m) ==
    IF isRecording(m) THEN Res(Fail(m, NotRec), NoRet)
    ELSE LET c == calculateFiringRates(m)
         IN  IF Running(c) THEN Res(c, VecRet(c.firingRates_))
             ELSE Res(c, NoRet)

getAllFiringRatesSorted(m) ==
    IF isRecording(m) THEN Res(Fail(m, NotRec), NoRet)
    ELSE LET c == sortFiringRates(m)
         IN  IF Running(c) THEN Res(c, VecRet(c.firingRatesSorted_))
             ELSE Res(c, NoRet)

getMaxFiringRate(m) ==
    IF isRecording(m) THEN Res(Fail(m, NotRec), NoRet)
    ELSE LET a == getAllFiringRatesSorted(m)
         IN  IF Running(a.m) THEN Res(a.m, FloatRet(a.r.val[nNeurons_ - 1]))
             ELSE a

getMinFiringRate(m) ==
    IF isRecording(m) THEN Res(Fail(m, NotRec), NoRet)
    ELSE LET a == getAllFiringRatesSorted(m)
         IN  IF Running(a.m) THEN Res(a.m, FloatRet(a.r.val[0]))
             ELSE a

getNeuronMeanFiringRate(m, neurId) ==
    IF isRecording(m) THEN Res(Fail(m, NotRec), NoRet)
    ELSE IF ~neurIdInRange(neurId) THEN Res(Fail(m, InRange), NoRet)
    ELSE Res(m, FloatRet(Div(getNeuronNumSpikes(m, neurId).r.val * 1000,
                             getRecordingTotalTime(m))))

\* the sum of (rates[i]-meanRate)^2 over i = 0 .. n-1
RECURSIVE sumSquares(_, _, _)
sumSquares(rates, meanRate, n) ==
    IF n = 0 THEN Zero
    ELSE LET d == RatSub(rates[n - 1], meanRate)
         IN  RatAdd(sumSquares(rates, meanRate, n - 1), RatMul(d, d))

\* the result is sqrt(val): SqrtRet keeps the radicand
getPopStdFiringRate(m) ==
    IF isRecording(m) THEN Res(Fail(m, NotRec), NoRet)
    ELSE IF m.totalTime_ = 0 THEN Res(m, SqrtRet(Zero))
    ELSE LET meanRate == getPopMeanFiringRate(m).r.val
             a == getAllFiringRates(m)
         IN  IF ~Running(a.m) THEN a
             ELSE IF nNeurons_ > 1
             THEN Res(a.m, SqrtRet(RatMul(
                      sumSquares(a.r.val, meanRate, nNeurons_),
                      Rat(1, nNeurons_ - 1))))
             ELSE Res(a.m, SqrtRet(Zero))

\* a count that leaves out the rates equal to max
getNumNeuronsWithFiringRateExclusive(m, min, max) ==
    IF isRecording(m) THEN Res(Fail(m, NotRec), NoRet)
    ELSE IF ~(RatLE(Zero, min) /\ RatLE(Zero, max))
    THEN Res(Fail(m, "min>=0.0f && max>=0.0f"), NoRet)
    ELSE IF ~RatLE(min, max) THEN Res(Fail(m, "max>=min"), NoRet)
    ELSE LET c == sortFiringRates(m)
         IN  IF ~Running(c) THEN Res(c, NoRet)
             ELSE Res(c, IntRet(Cardinality(
                      {i \in Neurons :
                          /\ RatLE(min, c.firingRatesSorted_[i])
                          /\ ~RatLE(max, c.firingRatesSorted_[i])})))

getNumNeuronsWithFiringRate(m, min, max) ==
    IF isRecording(m) THEN Res(Fail(m, NotRec), NoRet)
    ELSE IF ~(RatLE(Zero, min) /\ RatLE(Zero, max))
    THEN Res(Fail(m, "min>=0.0f && max>=0.0f"), NoRet)
    ELSE IF ~RatLE(min, max) THEN Res(Fail(m, "max>=min"), NoRet)
    ELSE LET c == sortFiringRates(m)
         IN  IF ~Running(c) THEN Res(c, NoRet)
             ELSE Res(c, IntRet(Cardinality(
                      {i \in Neurons :
                          /\ RatLE(min, c.firingRatesSorted_[i])
                          /\ RatLE(c.firingRatesSorted_[i], max)})))

getNumSilentNeurons(m) ==
    IF isRecording(m) THEN Res(Fail(m, NotRec), NoRet)
    ELSE getNumNeuronsWithFiringRate(m, Zero, Zero)

getPercentNeuronsWithFiringRate(m, min, max) ==
    IF isRecording(m) THEN Res(Fail(m, NotRec), NoRet)
    ELSE LET a == getNumNeuronsWithFiringRate(m, min, max)
         IN  IF Running(a.m)
             THEN Res(a.m, FloatRet(Div(a.r.val * 100, nNeurons_)))
             ELSE a

getPercentSilentNeurons(m) ==
    IF isRecording(m) THEN Res(Fail(m, NotRec), NoRet)
    ELSE LET a == getNumNeuronsWithFiringRate(m, Zero, Zero)
         IN  IF Running(a.m)
             THEN Res(a.m, FloatRet(Div(a.r.val * 100, nNeurons_)))
             ELSE a

getSpikeVector2D(m) ==
    IF isRecording(m) THEN Res(Fail(m, NotRec), NoRet)
    ELSE IF getMode(m) # "AER" THEN Res(Fail(m, "mode_==AER"), NoRet)
    ELSE Res(m, [kind |-> "vec2d", val |-> m.spkVector_])

\* print: the summary line evaluates getPopNumSpikes, getPopMeanFiringRate
\* and getPopStdFiringRate; with printSpikeTimes every spike time is
\* formatted by snprintf(times, 10, "%8d", ..) into char times[5], which
\* overruns the array: undefined behaviour once a neuron has a spike
printOverruns(m, printSpikeTimes) ==
    /\ printSpikeTimes /\ getMode(m) = "AER"
    /\ \E i \in Neurons : Len(m.spkVector_[i]) > 0

print(m, printSpikeTimes, ub) ==
    IF isRecording(m) THEN Res(Fail(m, NotRec), NoRet)
    ELSE LET a == getPopStdFiringRate(m)
         IN  IF ~Running(a.m) THEN Res(a.m, NoRet)
             ELSE IF printOverruns(a.m, printSpikeTimes) /\ ub = "crash"
             THEN Res([a.m EXCEPT !.fault = "segv"], NoRet)
             ELSE Res(a.m, Void)

\* ------------------------------------------------------------ spike file
\* fwrite of one item returns 1 (ok) or 0; a failed write is only logged
fwrite(data, word, ok) == IF ok THEN Append(data, word) ELSE data

\* a header write that stays pending until both fwrites have succeeded
writeSpikeFileHeaderRetries(m, data, ok1, ok2) ==
    IF ~m.needToWriteFileHeader_ THEN [m |-> m, data |-> data]
    ELSE [m |-> [m EXCEPT !.needToWriteFileHeader_ = ~(ok1 /\ ok2)],
          data |-> [data EXCEPT ![m.spikeFileId_] =
                       fwrite(fwrite(@, "signature", ok1), "version", ok2)]]

writeSpikeFileHeader(m, data, ok1, ok2) ==
    IF ~m.needToWriteFileHeader_ THEN [m |-> m, data |-> data]
    ELSE [m |-> [m EXCEPT !.needToWriteFileHeader_ = FALSE],
          data |-> [data EXCEPT ![m.spikeFileId_] =
                       fwrite(fwrite(@, "signature", ok1), "version", ok2)]]

setSpikeFileId(m, data, spikeFileId, ok1, ok2) ==
    IF isRecording(m) THEN [m |-> Fail(m, NotRec), data |-> data]
    ELSE writeSpikeFileHeader(
             [m EXCEPT !.spikeFileId_ = spikeFileId,
                       !.needToWriteFileHeader_ = TRUE],
             data, ok1, ok2)

\* fclose(f)
fclose(state, f) == [state EXCEPT ![f] = "closed"]

\* ~SpikeMonitorCore(): closes the sink that is bound, and ends the object
SpikeMonitorCoreDtor(m, state) ==
    IF m.spikeFileId_ # NULL
    THEN [m |-> [m EXCEPT !.spikeFileId_ = NULL, !.fault = "destroyed"],
          state |-> fclose(state, m.spikeFileId_)]
    ELSE [m |-> [m EXCEPT !.fault = "destroyed"], state |-> state]

\* ---------------------------------------------------------------- history
\* what the claims speak of and the object does not keep: the start of the
\* latest window and the mode it was started in, the summed durations of
\* the windows completed since the last clear, whether one has completed,
\* the pushes accepted per neuron since the last clear, and the spikes
\* pushed per neuron since the latest start
HistCleared ==
    [winStart |-> -1, winPersistent |-> FALSE, winSum |-> 0,
     stopped |-> FALSE,
     pushedBy |-> [i \in Neurons |-> 0],
     winSpikes |-> [i \in Neurons |-> <<>>]]

HistPush(h, time, neurId) ==
    [h EXCEPT !.pushedBy[neurId] = @ + 1,
              !.winSpikes[neurId] = @ \o <<time>>]

RECURSIVE HistPushAll(_, _)
HistPushAll(h, spikes) ==
    IF spikes = <<>> THEN h
    ELSE HistPushAll(HistPush(h, Head(spikes)[1], Head(spikes)[2]),
                     Tail(spikes))

\* ------------------------------------------------------------------- Init
\* the constructor's assignments, then init(): resize and clear()
Init ==
    /\ recordSet_ = FALSE
    /\ persistentData_ = FALSE
    /\ startTime_ = -1 /\ startTimeLast_ = -1 /\ stopTime_ = -1
    /\ accumTime_ = 0 /\ totalTime_ = -1
    /\ spkVector_ = EmptyStore
    /\ needToCalculateFiringRates_ = TRUE
    /\ needToSortFiringRates_ = TRUE
    /\ firingRates_ = AssignZeros
    /\ firingRatesSorted_ = AssignZeros
    /\ spikeFileId_ = NULL
    /\ needToWriteFileHeader_ = TRUE
    /\ simTimeSec = 0 /\ simTimeMs = 0
    /\ sinkData = [s \in Sinks |-> <<>>]
    /\ sinkState = [s \in Sinks |-> "unbound"]
    /\ fault = "none"
    /\ hist = HistCleared

\* ---------------------------------------------------------------- actions
\* a call runs while the process does, and leaves the object m
Call(op, m) ==
    /\ fault = "none"
    /\ Becomes(m)

\* a query: what it leaves of the object; its return value res.r goes to
\* the caller
Answer(op, res) ==
    /\ Call(op, res.m)
    /\ UNCHANGED <<clock, sinkData, sinkState, hist>>

\* the simulation advances
Tick ==
    /\ fault = "none"
    /\ \E step \in TickSteps :
        /\ CurrentTime + step <= MaxTicks * step
        /\ simTimeSec' = simTimeSec + ((simTimeMs + step) \div 1000)
        /\ simTimeMs' = (simTimeMs + step) % 1000
    /\ UNCHANGED <<recordSet_, persistentData_, timing, spkVector_, caches,
                   fileVars, fault, hist>>

\* the spikes the collaborator may hold for the group when it flushes:
\* none, or one spike of a neuron of the group fired at the current time
FlushInputs ==
    {<<>>} \cup
    {<<<<CurrentTime, n>>>> : n \in
        {i \in Neurons : TotalSpikes(spkVector_) < MaxSpikes}}

\* the collaborator's own periodic updateSpikeMonitor
UpdateSpikeMonitor(spikes) ==
    /\ spikes # <<>>
    /\ Call("updateSpikeMonitor", updateSpikeMonitor(Self, spikes))
    /\ hist' = IF recordSet_ THEN HistPushAll(hist, spikes) ELSE hist
    /\ UNCHANGED <<clock, sinkData, sinkState>>

\* persistentData_ is read by startRecording alone, so a change made while
\* recording acts as one made right after the stop: only those are taken
SetPersistentData(persistentData) ==
    /\ ~recordSet_
    /\ persistentData # persistentData_
    /\ Call("setPersistentData",
            [Self EXCEPT !.persistentData_ = persistentData])
    /\ UNCHANGED <<clock, sinkData, sinkState, hist>>

Clear ==
    /\ LET m == clear(Self)
       IN  /\ Call("clear", m)
           /\ hist' = IF Running(m) THEN HistCleared ELSE hist
    /\ UNCHANGED <<clock, sinkData, sinkState>>

PushAER(time, neurId, ub) ==
    /\ neurId \in Neurons => TotalSpikes(spkVector_) < MaxSpikes
    /\ LET m == pushAER(Self, time, neurId, ub)
       IN  /\ Call("pushAER", m)
           /\ hist' = IF Running(m) /\ neurId \in Neurons
                      THEN HistPush(hist, time, neurId) ELSE hist
    /\ UNCHANGED <<clock, sinkData, sinkState>>

StartRecording(spikes) ==
    /\ LET m == startRecording(Self, spikes, CurrentTime)
       IN  /\ Call("startRecording", m)
           /\ hist' = IF Running(m)
                      THEN [(IF persistentData_ THEN hist ELSE HistCleared)
                               EXCEPT !.winStart = CurrentTime,
                                      !.winPersistent = persistentData_,
                                      !.winSpikes = [i \in Neurons |-> <<>>]]
                      ELSE hist
    /\ UNCHANGED <<clock, sinkData, sinkState>>

StopRecording(spikes) ==
    /\ LET m == stopRecording(Self, spikes, CurrentTime)
       IN  /\ Call("stopRecording", m)
           /\ hist' = IF Running(m)
                      THEN [HistPushAll(hist, spikes)
                               EXCEPT !.winSum = @ + CurrentTime - hist.winStart,
                                      !.stopped = TRUE]
                      ELSE hist
    /\ UNCHANGED <<clock, sinkData, sinkState>>

SetSpikeFileId(spikeFileId, ok1, ok2) ==
    /\ Len(sinkData[spikeFileId]) + 2 <= MaxSinkWords
    /\ LET w == setSpikeFileId(Self, sinkData, spikeFileId, ok1, ok2)
       IN  /\ Call("setSpikeFileId", w.m)
           /\ sinkData' = w.data
           /\ sinkState' = IF Running(w.m)
                            THEN [sinkState EXCEPT ![spikeFileId] = "bound"]
                            ELSE sinkState
    /\ UNCHANGED <<clock, hist>>

\* the monitor is destroyed: no call follows
Destroy ==
    /\ LET w == SpikeMonitorCoreDtor(Self, sinkState)
       IN  /\ Call("~SpikeMonitorCore", w.m)
           /\ sinkState' = w.state
    /\ UNCHANGED <<clock, sinkData, hist>>

GetPopMeanFiringRate ==
    Answer("getPopMeanFiringRate", getPopMeanFiringRate(Self))
GetPopStdFiringRate ==
    Answer("getPopStdFiringRate", getPopStdFiringRate(Self))
GetPopNumSpikes ==
    Answer("getPopNumSpikes", getPopNumSpikes(Self))
GetAllFiringRates ==
    Answer("getAllFiringRates", getAllFiringRates(Self))
GetAllFiringRatesSorted ==
    Answer("getAllFiringRatesSorted", getAllFiringRatesSorted(Self))
GetMaxFiringRate ==
    Answer("getMaxFiringRate", getMaxFiringRate(Self))
GetMinFiringRate ==
    Answer("getMinFiringRate", getMinFiringRate(Self))
GetNeuronMeanFiringRate(neurId) ==
    Answer("getNeuronMeanFiringRate",
           getNeuronMeanFiringRate(Self, neurId))
GetNeuronNumSpikes(neurId) ==
    Answer("getNeuronNumSpikes", getNeuronNumSpikes(Self, neurId))
GetNumNeuronsWithFiringRate(min, max) ==
    Answer("getNumNeuronsWithFiringRate",
           getNumNeuronsWithFiringRate(Self, Rat(min, 1), Rat(max, 1)))
GetNumSilentNeurons ==
    Answer("getNumSilentNeurons", getNumSilentNeurons(Self))
GetPercentNeuronsWithFiringRate(min, max) ==
    Answer("getPercentNeuronsWithFiringRate",
           getPercentNeuronsWithFiringRate(Self, Rat(min, 1), Rat(max, 1)))
GetPercentSilentNeurons ==
    Answer("getPercentSilentNeurons", getPercentSilentNeurons(Self))
GetSpikeVector2D ==
    Answer("getSpikeVector2D", getSpikeVector2D(Self))
PrintMonitor(printSpikeTimes, ub) ==
    Answer("print",
           print(Self, printSpikeTimes, ub))

\* the (min, max) arguments tried: a point, a range, a reversed range and
\* a negative bound
RangeInputs == {<<0, 0>>, <<1, 2>>, <<2, 0>>, <<-1, 0>>}

\* an undefined operation's outcome matters only where it is executed
PushInputs ==
    {<<n, "silent">> : n \in Neurons} \cup
    ((NeurIdInputs \ Neurons) \X UBOutcomes)
PrintInputs == {<<FALSE, "silent">>} \cup ({TRUE} \X UBOutcomes)

Next ==
    \/ Tick
    \/ \E spikes \in FlushInputs : UpdateSpikeMonitor(spikes)
    \/ \E b \in BOOLEAN : SetPersistentData(b)
    \/ Clear
    \/ \E p \in PushInputs : PushAER(CurrentTime, p[1], p[2])
    \/ \E spikes \in FlushInputs : StartRecording(spikes)
    \/ \E spikes \in FlushInputs : StopRecording(spikes)
    \/ GetPopMeanFiringRate
    \/ GetPopStdFiringRate
    \/ GetPopNumSpikes
    \/ GetAllFiringRates
    \/ GetAllFiringRatesSorted
    \/ GetMaxFiringRate
    \/ GetMinFiringRate
    \/ \E n \in NeurIdInputs : GetNeuronMeanFiringRate(n)
    \/ \E n \in NeurIdInputs : GetNeuronNumSpikes(n)
    \/ \E r \in RangeInputs : GetNumNeuronsWithFiringRate(r[1], r[2])
    \/ GetNumSilentNeurons
    \/ \E r \in RangeInputs : GetPercentNeuronsWithFiringRate(r[1], r[2])
    \/ GetPercentSilentNeurons
    \/ GetSpikeVector2D
    \/ \E p \in PrintInputs : PrintMonitor(p[1], p[2])

\* the recording session and the statistics
Spec == Init /\ [][Next]_vars

\* the spike file: binding sinks between recording sessions
NextFile ==
    \/ Tick
    \/ \E b \in BOOLEAN : SetPersistentData(b)
    \/ Clear
    \/ StartRecording(<<>>)
    \/ StopRecording(<<>>)
    \/ \E s \in Sinks, ok1 \in BOOLEAN, ok2 \in BOOLEAN :
           SetSpikeFileId(s, ok1, ok2)
    \/ Destroy

SpecFile == Init /\ [][NextFile]_vars

\* ================================================================ claims
\* the fields a rejected call must leave alone
Monitor(m) == [m EXCEPT !.fault = "none"]

\* what each Idle-only operation leaves of the object m, over its inputs
IdleOnlyCalls(m) ==
    {clear(m),
     getPopMeanFiringRate(m).m, getPopStdFiringRate(m).m,
     getPopNumSpikes(m).m, getAllFiringRates(m).m,
     getAllFiringRatesSorted(m).m, getMaxFiringRate(m).m,
     getMinFiringRate(m).m, getNumSilentNeurons(m).m,
     getPercentSilentNeurons(m).m, getSpikeVector2D(m).m}
    \cup {getNeuronMeanFiringRate(m, n).m : n \in NeurIdInputs}
    \cup {getNeuronNumSpikes(m, n).m : n \in NeurIdInputs}
    \cup {getNumNeuronsWithFiringRate(m, Rat(r[1], 1), Rat(r[2], 1)).m :
             r \in RangeInputs}
    \cup {getPercentNeuronsWithFiringRate(m, Rat(r[1], 1), Rat(r[2], 1)).m :
             r \in RangeInputs}
    \cup {print(m, p[1], p[2]).m : p \in PrintInputs}

\* what setSpikeFileId leaves of the object and of the sinks, over its inputs
BindCalls(m) ==
    {setSpikeFileId(m, sinkData, s, ok[1], ok[2]) :
         s \in Sinks, ok \in BOOLEAN \X BOOLEAN}

PushCalls(m) ==
    {pushAER(m, CurrentTime, n, ub) : n \in NeurIdInputs, ub \in UBOutcomes}

\* C1: phase exclusion. While the monitor records, clear, setSpikeFileId,
\* print and every statistics query fail their assert(!isRecording()); while
\* it is idle, pushAER fails its assert(isRecording()); the failed call
\* leaves the store, the timing fields, the caches and the sinks as they were.
C1_PhaseExclusion ==
    fault = "none" =>
        /\ recordSet_ =>
               /\ \A x \in IdleOnlyCalls(Self) :
                      x.fault = NotRec /\ Monitor(x) = Self
               /\ \A w \in BindCalls(Self) :
                      /\ w.m.fault = NotRec /\ Monitor(w.m) = Self
                      /\ w.data = sinkData
        /\ ~recordSet_ =>
               \A x \in PushCalls(Self) :
                   x.fault = "isRecording()" /\ Monitor(x) = Self

\* a call was rejected in the middle of a recording that holds spikes
C1_Witness ==
    /\ recordSet_ /\ fault = NotRec
    /\ TotalSpikes(spkVector_) > 0

\* C2: the session state machine. The monitor starts idle; a startRecording
\* step is accepted when idle and leaves the monitor recording, and is
\* rejected when recording; a stopRecording step is accepted when recording
\* and leaves the monitor idle, and is rejected when idle; no other step
\* changes the recording flag.
StartStep == \E spikes \in FlushInputs : StartRecording(spikes)
StopStep == \E spikes \in FlushInputs : StopRecording(spikes)

C2_SessionStateMachine ==
    /\ ~recordSet_
    /\ [][/\ StartStep =>
                 /\ recordSet_'
                 /\ fault' = IF recordSet_ THEN NotRec ELSE "none"
          /\ StopStep =>
                 IF recordSet_ THEN ~recordSet_' /\ fault' = "none"
                 ELSE ~recordSet_' /\ fault' = "isRecording()"
          /\ recordSet_' # recordSet_ => StartStep \/ StopStep]_vars

\* a second window was started after a first was stopped
C2_Witness ==
    /\ recordSet_ /\ hist.stopped /\ fault = "none"

\* f[0] + .. + f[n-1]
RECURSIVE SumUpTo(_, _)
SumUpTo(f, n) == IF n = 0 THEN 0 ELSE f[n - 1] + SumUpTo(f, n - 1)

\* the pushes accepted since the last clear
PushedTotal == SumUpTo(hist.pushedBy, nNeurons_)

\* C3: persistent-mode accumulation. When the latest window was started in
\* persistent mode and has been stopped, totalTime_ is the sum of the
\* durations of the windows completed since the last clear, and
\* getPopNumSpikes is the number of spikes pushed in them.
C3_PersistentAccumulation ==
    (fault = "none" /\ ~recordSet_ /\ hist.stopped /\ hist.winPersistent) =>
        /\ totalTime_ = hist.winSum
        /\ getPopNumSpikes(Self).r = IntRet(PushedTotal)

\* two windows of 500 ms with spikes in each: 1000 ms in all
C3_Witness ==
    /\ fault = "none" /\ ~recordSet_ /\ hist.stopped /\ hist.winPersistent
    /\ hist.winStart > startTime_
    /\ stopTime_ > hist.winStart
    /\ TotalSpikes(hist.winSpikes) > 0
    /\ TotalSpikes(hist.winSpikes) < PushedTotal
    /\ totalTime_ = 1000

\* C4: snapshot mode. When the latest window was started with persistent
\* mode off and has been stopped, totalTime_ is that window's duration and
\* the store holds exactly the spikes pushed during it.
C4_SnapshotMode ==
    (fault = "none" /\ ~recordSet_ /\ hist.stopped /\ ~hist.winPersistent) =>
        /\ totalTime_ = stopTime_ - hist.winStart
        /\ spkVector_ = hist.winSpikes

\* a window that started later than the monitor was built, has lasted and
\* has a spike
C4_Witness ==
    /\ fault = "none" /\ ~recordSet_ /\ hist.stopped /\ ~hist.winPersistent
    /\ hist.winStart > 0 /\ stopTime_ > hist.winStart
    /\ TotalSpikes(spkVector_) > 0

\* C5: the dirty flags keep their order: the sorted cache is never marked
\* clean while the rate cache is marked dirty.
C5_DirtyFlagOrder ==
    fault = "none" =>
        (needToCalculateFiringRates_ => needToSortFiringRates_)

\* the (min, max) arguments that meet getNumNeuronsWithFiringRate's asserts
ValidRanges == {r \in RangeInputs : 0 <= r[1] /\ r[1] <= r[2]}

\* C6: on the object clear() leaves, every population query returns without
\* a fault, and what it returns is that of a population without spikes: no
\* spikes, a zero rate for every neuron, zero mean, deviation, maximum and
\* minimum, every neuron silent.
C6_ClearThenQuery ==
    (fault = "none" /\ ~recordSet_) =>
        LET c == clear(Self)
        IN  /\ getPopMeanFiringRate(c) = Res(c, FloatRet(Zero))
            /\ getPopNumSpikes(c) = Res(c, IntRet(0))
            /\ LET a == getPopStdFiringRate(c)
               IN  a.m.fault = "none" /\ a.r = SqrtRet(Zero)
            /\ LET a == getAllFiringRates(c)
               IN  a.m.fault = "none" /\ a.r = VecRet(AssignZeros)
            /\ LET a == getAllFiringRatesSorted(c)
               IN  a.m.fault = "none" /\ a.r = VecRet(AssignZeros)
            /\ LET a == getMaxFiringRate(c)
               IN  a.m.fault = "none" /\ a.r = FloatRet(Zero)
            /\ LET a == getMinFiringRate(c)
               IN  a.m.fault = "none" /\ a.r = FloatRet(Zero)
            /\ LET a == getNumSilentNeurons(c)
               IN  a.m.fault = "none" /\ a.r = IntRet(nNeurons_)
            /\ \A r \in ValidRanges :
                   LET a == getNumNeuronsWithFiringRate(
                                c, Rat(r[1], 1), Rat(r[2], 1))
                   IN  /\ a.m.fault = "none"
                       /\ a.r = IntRet(IF r[1] = 0 THEN nNeurons_ ELSE 0)

\* C7: the division-by-zero guard. After a window of zero duration every
\* rate query returns without a fault, and returns 0.
C7_ZeroDurationRates ==
    (fault = "none" /\ ~recordSet_ /\ totalTime_ = 0) =>
        /\ getPopMeanFiringRate(Self).r = FloatRet(Zero)
        /\ getPopStdFiringRate(Self).r = SqrtRet(Zero)
        /\ getAllFiringRates(Self).r = VecRet(AssignZeros)
        /\ getAllFiringRatesSorted(Self).r = VecRet(AssignZeros)
        /\ getMaxFiringRate(Self).r = FloatRet(Zero)
        /\ getMinFiringRate(Self).r = FloatRet(Zero)
        /\ \A i \in Neurons :
               getNeuronMeanFiringRate(Self, i).r = FloatRet(Zero)

\* C8: spike counts are conserved. While idle, getPopNumSpikes is the sum of
\* getNeuronNumSpikes over the neurons, getNeuronNumSpikes(i) is the number
\* of pushes accepted for neuron i since the last clear, and so the total is
\* the number of pushes accepted since the last clear.
C8_SpikeCountConservation ==
    (fault = "none" /\ ~recordSet_) =>
        /\ getPopNumSpikes(Self).r =
               IntRet(SumUpTo([i \in Neurons |->
                                  getNeuronNumSpikes(Self, i).r.val],
                              nNeurons_))
        /\ \A i \in Neurons :
               getNeuronNumSpikes(Self, i).r = IntRet(hist.pushedBy[i])
        /\ getPopNumSpikes(Self).r = IntRet(PushedTotal)

\* both neurons have had a spike pushed and the window is closed
C8_Witness ==
    /\ fault = "none" /\ ~recordSet_ /\ hist.stopped
    /\ \A i \in Neurons : hist.pushedBy[i] > 0

\* the values a simulation clock can show
ClockValues == {k * step : k \in 0 .. MaxTicks, step \in TickSteps}

\* C9: once a stop has completed, totalTime_ is stopTime_ less
\* startTimeLast_ plus accumTime_, and is not negative; and a stop at a clock
\* value that makes that sum negative ends in the failed assert.
C9_TotalTimeAfterStop ==
    /\ (fault = "none" /\ ~recordSet_ /\ hist.stopped) =>
           /\ totalTime_ = stopTime_ - startTimeLast_ + accumTime_
           /\ totalTime_ >= 0
    /\ (fault = "none" /\ recordSet_) =>
           \A t \in ClockValues :
               t - startTimeLast_ + accumTime_ < 0 =>
                   stopRecording(Self, <<>>, t).fault = "totalTime_>=0"

\* a second persistent window has been stopped: time was brought forward
C9_Witness ==
    /\ fault = "none" /\ ~recordSet_ /\ hist.stopped
    /\ accumTime_ > 0 /\ totalTime_ > accumTime_

\* C10: a neuron id outside 0 .. nNeurons_-1 is rejected: pushAER,
\* getNeuronNumSpikes and getNeuronMeanFiringRate end in a fault and leave
\* the object as it was.
C10_NeuronIdRange ==
    fault = "none" =>
        \A n \in NeurIdInputs \ Neurons :
            /\ recordSet_ =>
                   \A ub \in UBOutcomes :
                       LET x == pushAER(Self, CurrentTime, n, ub)
                       IN  x.fault # "none" /\ Monitor(x) = Self
            /\ ~recordSet_ =>
                   /\ getNeuronNumSpikes(Self, n).m = Fail(Self, InRange)
                   /\ getNeuronMeanFiringRate(Self, n).m = Fail(Self, InRange)

\* how many times word occurs in the sequence data
RECURSIVE Count(_, _)
Count(data, word) ==
    IF data = <<>> THEN 0
    ELSE (IF Head(data) = word THEN 1 ELSE 0) + Count(Tail(data), word)

\* C11: the header is written at most once per sink: whatever sinks are
\* bound, in whatever order and however often, no sink has received the
\* signature or the version more than once; and writeSpikeFileHeader writes
\* nothing once the header has been written for the bound sink.
C11_HeaderOncePerSink ==
    /\ \A s \in Sinks :
           /\ Count(sinkData[s], "signature") <= 1
           /\ Count(sinkData[s], "version") <= 1
    /\ (fault = "none" /\ ~needToWriteFileHeader_ /\ spikeFileId_ # NULL) =>
           \A ok \in BOOLEAN \X BOOLEAN :
               writeSpikeFileHeader(Self, sinkData, ok[1], ok[2]).data
                   = sinkData

\* C12: a bound sink is closed exactly once, at the rebind that replaces it
\* or at destruction: while the monitor lives, the only sink that has been
\* bound and is still open is the one bound now, and once the monitor is
\* destroyed no sink that was bound is still open.
C12_SinkOwnership ==
    /\ fault = "none" =>
           \A s \in Sinks : sinkState[s] = "bound" => s = spikeFileId_
    /\ fault = "destroyed" =>
           \A s \in Sinks : sinkState[s] # "bound"

\* v is sorted in non-decreasing order
NonDecreasing(v) ==
    \A i \in Neurons : \A j \in Neurons : i <= j => RatLE(v[i], v[j])

\* w holds the elements of v, each as often as v does
PermutationOf(w, v) ==
    \E p \in [Neurons -> Neurons] :
        /\ \A i \in Neurons : \E j \in Neurons : p[j] = i
        /\ \A i \in Neurons : w[i] = v[p[i]]

\* C13: in every idle state where getAllFiringRates and
\* getAllFiringRatesSorted are answered, the sorted vector is a
\* non-decreasing permutation of the rate vector, getMaxFiringRate returns
\* the greatest of the rates and getMinFiringRate the least.
C13_SortedRates ==
    (fault = "none" /\ ~recordSet_) =>
        LET a == getAllFiringRates(Self)
            s == getAllFiringRatesSorted(Self)
            mx == getMaxFiringRate(Self)
            mn == getMinFiringRate(Self)
        IN  (Running(a.m) /\ Running(s.m)) =>
                /\ NonDecreasing(s.r.val)
                /\ PermutationOf(s.r.val, a.r.val)
                /\ mx.r.kind = "float" /\ mn.r.kind = "float"
                /\ \E i \in Neurons : a.r.val[i] = mx.r.val
                /\ \A i \in Neurons : RatLE(a.r.val[i], mx.r.val)
                /\ \E i \in Neurons : a.r.val[i] = mn.r.val
                /\ \A i \in Neurons : RatLE(mn.r.val, a.r.val[i])

\* the sorted cache was filled from rates that were not in order
C13_Witness ==
    /\ fault = "none" /\ ~recordSet_ /\ totalTime_ > 0
    /\ ~needToSortFiringRates_
    /\ Len(spkVector_[0]) > Len(spkVector_[1])
    /\ firingRatesSorted_ # firingRates_

\* C14: getAllFiringRatesSorted is idempotent. Across every step taken while
\* idle that is neither a clear nor part of a recording cycle (the query
\* itself, any other query, the clock) the vector getAllFiringRatesSorted
\* returns stays the same, so two calls with only such steps between them
\* return identical vectors; this covers totalTime_ = 0, where the first
\* call leaves the rate cache dirty.
C14_SortedIdempotent ==
    [][(/\ fault = "none" /\ fault' = "none"
        /\ ~recordSet_ /\ ~recordSet_'
        /\ ~Clear
        /\ Running(getAllFiringRatesSorted(Self).m))
       => getAllFiringRatesSorted(Self').r = getAllFiringRatesSorted(Self).r
      ]_vars

\* a first call has answered after a window of zero duration, and has left
\* the rate cache dirty
C14_Witness ==
    /\ fault = "none" /\ ~recordSet_ /\ totalTime_ = 0
    /\ ~needToSortFiringRates_ /\ needToCalculateFiringRates_

\* C15: calculateFiringRates changes nothing when the rate cache is clean;
\* when it is dirty and the call returns, the cache is marked clean, with
\* rate[i] = spikes of i * 1000 / totalTime_ when totalTime_ > 0 and with all
\* rates zero when totalTime_ = 0.
C15_ComputeRates ==
    (fault = "none" /\ ~recordSet_) =>
        LET c == calculateFiringRates(Self)
        IN  /\ ~needToCalculateFiringRates_ => c = Self
            /\ (needToCalculateFiringRates_ /\ Running(c)) =>
                   /\ ~c.needToCalculateFiringRates_
                   /\ totalTime_ > 0 =>
                          \A i \in Neurons :
                              c.firingRates_[i] =
                                  Rat(Len(spkVector_[i]) * 1000, totalTime_)
                   /\ totalTime_ = 0 => c.firingRates_ = AssignZeros

\* C16: an accepted startRecording step in persistent mode sets startTime_
\* to the current time when it is the first start since construction or the
\* last clear, and leaves it alone otherwise; in non-persistent mode it sets
\* startTime_ to the current time; in both modes it sets startTimeLast_ to
\* the current time. Between starts only clear changes startTime_.
C16_StartTimeFrame ==
    [][/\ (StartStep /\ fault' = "none") =>
              /\ startTimeLast_' = CurrentTime
              /\ startTime_' =
                     IF persistentData_ /\ hist.winStart >= 0
                     THEN startTime_ ELSE CurrentTime
       /\ startTime_' # startTime_ => StartStep \/ Clear
      ]_vars

\* a later persistent start has left the first start time in place
C16_Witness ==
    /\ fault = "none" /\ recordSet_ /\ hist.winPersistent
    /\ startTime_ >= 0 /\ startTime_ < startTimeLast_

\* the times of the spikes of neuron i among spikes, in order
RECURSIVE TimesOf(_, _)
TimesOf(spikes, i) ==
    IF spikes = <<>> THEN <<>>
    ELSE (IF Head(spikes)[2] = i THEN <<Head(spikes)[1]>> ELSE <<>>)
             \o TimesOf(Tail(spikes), i)

\* C17: flush ordering. An accepted startRecording flushes after its clear
\* and before it sets the recording flag: the spikes the collaborator holds
\* at that moment were buffered before the window and do not reach the
\* store, which is left empty (non-persistent) or as it was (persistent).
\* An accepted stopRecording flushes before it clears the flag: the spikes
\* the collaborator holds were buffered during the window and are appended
\* to the store, and the stop then takes its times from the clock.
C17_FlushOrdering ==
    [][\A spikes \in FlushInputs :
           /\ (StartRecording(spikes) /\ fault' = "none") =>
                  /\ recordSet_'
                  /\ spkVector_' =
                         IF persistentData_ THEN spkVector_ ELSE EmptyStore
           /\ (StopRecording(spikes) /\ fault' = "none") =>
                  /\ ~recordSet_'
                  /\ spkVector_' =
                         [i \in Neurons |->
                             spkVector_[i] \o TimesOf(spikes, i)]
                  /\ stopTime_' = CurrentTime
      ]_vars

\* a window was stopped that holds a spike of its last instant
C17_Witness ==
    /\ fault = "none" /\ ~recordSet_ /\ hist.stopped
    /\ stopTime_ > hist.winStart
    /\ \E i \in Neurons :
           /\ Len(hist.winSpikes[i]) > 0
           /\ hist.winSpikes[i][Len(hist.winSpikes[i])] = stopTime_
           /\ spkVector_[i] # <<>>
           /\ spkVector_[i][Len(spkVector_[i])] = stopTime_

\* C18: in every idle state where the queries are answered,
\* getNumSilentNeurons equals getNumNeuronsWithFiringRate(0, 0),
\* getPercentSilentNeurons equals that count * 100 / nNeurons_, and
\* getNumNeuronsWithFiringRate(min, max) is the number of neurons whose rate
\* in getAllFiringRates lies in [min, max], ends included, which is between
\* 0 and nNeurons_.
C18_RangeCounts ==
    (fault = "none" /\ ~recordSet_) =>
        LET a == getAllFiringRates(Self)
            z == getNumNeuronsWithFiringRate(Self, Zero, Zero)
        IN  Running(a.m) =>
                /\ z.r.kind = "int"
                /\ getNumSilentNeurons(Self).r = z.r
                /\ getPercentSilentNeurons(Self).r =
                       FloatRet(Rat(z.r.val * 100, nNeurons_))
                /\ \A r \in ValidRanges :
                       LET n == getNumNeuronsWithFiringRate(
                                    Self, Rat(r[1], 1), Rat(r[2], 1))
                       IN  /\ n.r = IntRet(Cardinality(
                                      {i \in Neurons :
                                          /\ RatLE(Rat(r[1], 1), a.r.val[i])
                                          /\ RatLE(a.r.val[i], Rat(r[2], 1))}))
                           /\ 0 <= n.r.val /\ n.r.val <= nNeurons_

\* one neuron is silent and the other is not, and the rates were sorted
C18_Witness ==
    /\ fault = "none" /\ ~recordSet_ /\ totalTime_ > 0
    /\ ~needToSortFiringRates_
    /\ \E i \in Neurons : firingRatesSorted_[i] = Zero
    /\ \E i \in Neurons : firingRatesSorted_[i] # Zero

\* the rates the current store and total time imply: spikes * 1000 /
\* totalTime_, and zero for every neuron when totalTime_ = 0
ImpliedRates ==
    [i \in Neurons |->
        IF totalTime_ = 0 THEN Zero
        ELSE Rat(Len(spkVector_[i]) * 1000, totalTime_)]

\* C20: cache coherence. In every idle state, a rate cache that is marked
\* clean holds spikes of i * 1000 / totalTime_ for every neuron i, and a
\* sorted cache that is marked clean is the ascending sort of the rates the
\* current store and totalTime_ imply; so getAllFiringRates and
\* getAllFiringRatesSorted, where they answer, return those and never values
\* of an earlier store or an earlier totalTime_.
C20_CacheCoherence ==
    (fault = "none" /\ ~recordSet_) =>
        /\ ~needToCalculateFiringRates_ =>
               /\ totalTime_ > 0
               /\ firingRates_ = ImpliedRates
        /\ ~needToSortFiringRates_ =>
               /\ totalTime_ >= 0
               /\ NonDecreasing(firingRatesSorted_)
               /\ PermutationOf(firingRatesSorted_, ImpliedRates)
        /\ LET a == getAllFiringRates(Self)
               s == getAllFiringRatesSorted(Self)
           IN  /\ Running(a.m) => a.r = VecRet(ImpliedRates)
               /\ Running(s.m) =>
                      /\ NonDecreasing(s.r.val)
                      /\ PermutationOf(s.r.val, ImpliedRates)

\* both caches are clean after a second persistent window has added time
\* and spikes to those of the first
C20_Witness ==
    /\ fault = "none" /\ ~recordSet_ /\ hist.winPersistent
    /\ ~needToCalculateFiringRates_ /\ ~needToSortFiringRates_
    /\ accumTime_ > 0 /\ totalTime_ > accumTime_
    /\ TotalSpikes(hist.winSpikes) > 0
    /\ TotalSpikes(spkVector_) > TotalSpikes(hist.winSpikes)

BindStep ==
    \E s \in Sinks, ok1 \in BOOLEAN, ok2 \in BOOLEAN :
        SetSpikeFileId(s, ok1, ok2)

C21_StopEnabled ==
    (fault = "none" /\ recordSet_) =>
        /\ startTime_ >= 0 /\ startTimeLast_ >= 0 /\ accumTime_ >= 0
        /\ stopChecks(Self) = "none"
        /\ \A spikes \in FlushInputs :
               LET x == stopRecording(Self, spikes, CurrentTime)
               IN  x.fault = "none" /\ ~x.recordSet_

\* the first persistent start after a clear: totalTime_ is still unset
C21_Witness ==
    /\ fault = "none" /\ recordSet_ /\ hist.winPersistent
    /\ totalTime_ = -1 /\ accumTime_ = 0
    /\ startTimeLast_ > 0

\* what each statistics query and print leaves of the object m, over their
\* inputs
QueryCalls(m) ==
    {getPopMeanFiringRate(m).m, getPopStdFiringRate(m).m,
     getPopNumSpikes(m).m, getAllFiringRates(m).m,
     getAllFiringRatesSorted(m).m, getMaxFiringRate(m).m,
     getMinFiringRate(m).m, getNumSilentNeurons(m).m,
     getPercentSilentNeurons(m).m, getSpikeVector2D(m).m}
    \cup {getNeuronMeanFiringRate(m, n).m : n \in NeurIdInputs}
    \cup {getNeuronNumSpikes(m, n).m : n \in NeurIdInputs}
    \cup {getNumNeuronsWithFiringRate(m, Rat(r[1], 1), Rat(r[2], 1)).m :
             r \in RangeInputs}
    \cup {getPercentNeuronsWithFiringRate(m, Rat(r[1], 1), Rat(r[2], 1)).m :
             r \in RangeInputs}
    \cup {print(m, p[1], p[2]).m : p \in PrintInputs}

\* the recorded data of m: all fields but the two caches and their flags
RecordedData(m) ==
    <<m.recordSet_, m.persistentData_, m.spkVector_,
      m.startTime_, m.startTimeLast_, m.stopTime_, m.accumTime_,
      m.totalTime_, m.spikeFileId_, m.needToWriteFileHeader_>>

\* C22: queries are read-only on recorded data. In every idle state each
\* statistics query and print, whether it answers or ends in a failed
\* assert, leaves the recording flag, the spike sequences, the five time
\* fields, the bound sink and the header flag as they were: only the two
\* rate caches and their dirty flags may differ.
C22_QueriesReadOnly ==
    (fault = "none" /\ ~recordSet_) =>
        \A x \in QueryCalls(Self) : RecordedData(x) = RecordedData(Self)

\* a query has filled the rate cache from recorded spikes
C22_Witness ==
    /\ fault = "none" /\ ~recordSet_
    /\ ~needToCalculateFiringRates_
    /\ firingRates_ # AssignZeros
    /\ TotalSpikes(spkVector_) > 0 /\ totalTime_ > 0

\* C23: silent neurons are the neurons without spikes. In every idle state
\* with totalTime_ > 0, getNumSilentNeurons is the number of neurons whose
\* spike sequence is empty, and with the number of neurons that have a spike
\* it adds up to nNeurons_.
C23_SilentNeurons ==
    (fault = "none" /\ ~recordSet_ /\ totalTime_ > 0) =>
        LET z == getNumSilentNeurons(Self)
        IN  /\ z.m.fault = "none"
            /\ z.r = IntRet(Cardinality(
                         {i \in Neurons : spkVector_[i] = <<>>}))
            /\ z.r.val + Cardinality({i \in Neurons : Len(spkVector_[i]) >= 1})
                   = nNeurons_

\* a completed window in which the first neuron stayed silent and the
\* second did not
C23_Witness ==
    /\ fault = "none" /\ ~recordSet_ /\ totalTime_ > 0 /\ hist.stopped
    /\ spkVector_[0] = <<>> /\ spkVector_[1] # <<>>
    /\ ~needToSortFiringRates_

====
